---- MODULE Spec2Model ----
(***************************************************************************)
(* Model of the WireGuard split-tunnel action, src/src/index.ts.           *)
(*                                                                         *)
(* One host (interface table, kernel routing table) and a sequence of      *)
(* invocations of run() on it.  Every await of run() is one step of the    *)
(* model: the command awaited is the last event of the trace, with result  *)
(* "pending", and the step that completes it draws the command's result    *)
(* from what the host can answer.                                          *)
(*                                                                         *)
(* Strings the code inspects (addresses, domain names, raw inputs) are     *)
(* sequences of one-character strings.                                     *)
(***************************************************************************)
EXTENDS Integers, Sequences, FiniteSets, TLC

VARIABLES
    ifaceUp,    \* host: the interface exists in the interface table
    routes,     \* host: addresses that have a host route on the interface
    bringUps,   \* history: number of successful `wg-quick up` on this host
    inv         \* the current invocation of run(): inputs, locals, log, outcome

vars == <<ifaceUp, routes, bringUps, inv>>

(***************************************************************************)
(* Bounds of the model.                                                    *)
(***************************************************************************)
MaxItems == 2       \* comma-separated tokens in the raw `domains` and `ips` together
MaxTokens == 3      \* comma-separated tokens of an input given to parseInputList alone

(***************************************************************************)
(* Program constants.                                                      *)
(***************************************************************************)
ProbeSample == 3    \* ips.slice(0, 3)

(***************************************************************************)
(* Strings.                                                                *)
(***************************************************************************)
A4a == <<"1", ".", "5">>
A4b == <<"1", ".", "6">>
A6a == <<"a", ":", "1">>
DomX == <<"x">>
DomY == <<"y">>
Iface == <<"w", "g", "0">>

Includes(s, ch) == \E i \in 1..Len(s) : s[i] = ch

\* The characters String.prototype.trim() removes, as far as inputs have them.
IsSpace(ch) == ch \in {" ", "\t", "\n"}

RECURSIVE TrimStart(_)
TrimStart(s) ==
    IF s # <<>> /\ IsSpace(Head(s)) THEN TrimStart(Tail(s)) ELSE s

RECURSIVE TrimEnd(_)
TrimEnd(s) ==
    IF s # <<>> /\ IsSpace(s[Len(s)]) THEN TrimEnd(SubSeq(s, 1, Len(s) - 1)) ELSE s

Trim(s) == TrimEnd(TrimStart(s))

\* input.split(","): the pieces between the commas; "" splits to [""].
RECURSIVE Split(_)
Split(s) ==
    IF ~Includes(s, ",") THEN <<s>>
    ELSE LET i == CHOOSE j \in 1..Len(s) :
                      s[j] = "," /\ \A k \in 1..(j - 1) : s[k] # ","
         IN  <<SubSeq(s, 1, i - 1)>> \o Split(SubSeq(s, i + 1, Len(s)))

MapTrim(l) == [i \in 1..Len(l) |-> Trim(l[i])]

NonEmpty(item) == item # <<>>

\* Variant: the empty pieces are removed before the pieces are trimmed.
parseInputList_filterFirst(input) == MapTrim(SelectSeq(Split(input), NonEmpty))

parseInputList(input) == SelectSeq(MapTrim(Split(input)), NonEmpty)

\* core.getInput(name) || "": the value of the input, trimmed, and the empty
\* string for an input that is not set.
Unset == <<"(unset)">>
getInput(value) == IF value = Unset THEN <<>> ELSE Trim(value)

RECURSIVE JoinComma(_)
JoinComma(l) ==
    IF l = <<>> THEN <<>>
    ELSE IF Len(l) = 1 THEN l[1]
    ELSE l[1] \o <<",">> \o JoinComma(Tail(l))

SeqsUpTo(S, n) == UNION {[1..m -> S] : m \in 0..n}

\* The raw values of the `domains` and `ips` inputs an invocation may be given:
\* comma-joined tokens, some padded with blanks, some empty.
RawDomainTokens == {DomX, <<" ">> \o DomY, <<>>}
RawIpTokens == {A4a, <<" ">> \o A6a \o <<" ">>, <<>>}
RawInputs ==
    {<<JoinComma(p[1]), JoinComma(p[2])>> :
        p \in {q \in SeqsUpTo(RawDomainTokens, MaxItems) \X
                       SeqsUpTo(RawIpTokens, MaxItems) :
                   Len(q[1]) + Len(q[2]) <= MaxItems}}

Platforms == {"linux", "darwin"}

(***************************************************************************)
(* The resolver's zone: what a successful lookup of a family returns.  A   *)
(* family with no record never answers "ok".                               *)
(***************************************************************************)
Zone4(domain) == IF domain = DomX THEN <<A4a, A4b>> ELSE <<A4b>>
Zone6(domain) == IF domain = DomX THEN <<A6a>> ELSE <<>>

(***************************************************************************)
(* The log of an invocation: commands issued (with their result once       *)
(* awaited) and the messages logged through core.warning / core.info.      *)
(* When a batch function (addRoutesForDomains, addRoutesForIPs) returns,   *)
(* the log keeps of its events only the count message it ended with, and   *)
(* once the next domain's first lookup has answered, the log keeps of a    *)
(* domain's events only its "Resolving" message; `issued` keeps the kinds  *)
(* of all commands the invocation has issued.                              *)
(***************************************************************************)
\*   k    kind: "query", "install", "writeConf", "cp", "chmod", "wgUp", "settle",
\*        "lookup", "route", "probe", "warn", "info"
\*   s    subject: the domain or address the event is about
\*   c    the CIDR of a route command
\*   d    detail: the command variant, the address family, the message kind
\*   n    the count an info message reports
\*   res  result of a command: "pending" while awaited, "-" for messages
\*   dev  the interface a route command names
Ev(k, s, c, d, n, res) ==
    [k |-> k, s |-> s, c |-> c, d |-> d, n |-> n, res |-> res, dev |-> <<>>]

Cmd(k) == Ev(k, Iface, <<>>, "", 0, "pending")
Warn(d, s) == Ev("warn", s, <<>>, d, 0, "-")
Info(d, n) == Ev("info", <<>>, <<>>, d, n, "-")
\* core.info(`Resolving ${domain}...`)
Resolving(domain) == Ev("info", domain, <<>>, "resolving", 0, "-")

Last(t) == t[Len(t)]
Completed(t, res) == [t EXCEPT ![Len(t)].res = res]

\* The state of run() before it is first invoked on the host.
IdleInv ==
    [pc |-> "idle", platform |-> "linux", config |-> "unread",
     domains |-> <<>>, ips |-> <<>>, interfaceExists |-> "unknown",
     mode |-> "none", di |-> 0, resolved |-> <<>>, ri |-> 0,
     domainIPs |-> <<>>, routeCountDomains |-> 0, ii |-> 0,
     routeCountIPs |-> 0, allIPs |-> <<>>, pi |-> 0, trace |-> <<>>,
     mark |-> 0, issued |-> {}, applied |-> <<>>,
     outcome |-> "none", failMsg |-> "", bringUpsAtStart |-> 0,
     routesAtStart |-> {}, abandoned |-> {}]

Log(r, ev) == [r EXCEPT !.trace = Append(@, ev)]
Issue(r, ev, pc) ==
    [r EXCEPT !.trace = Append(@, ev), !.issued = @ \cup {ev.k}, !.pc = pc]

\* A batch function is entered: its events follow position `mark` of the log.
Enter(r) == [r EXCEPT !.mark = Len(r.trace)]
\* A batch function has returned: its last message stands for its events.
Fold(r) == [r EXCEPT !.trace = Append(SubSeq(@, 1, r.mark), Last(@))]
\* The events of the domains before the current one (number r.di) are done
\* with: their "Resolving" messages stand for them.  The log ends with the
\* current domain's message and its first lookup.
FoldDomain(r) ==
    [r EXCEPT !.trace = SubSeq(@, 1, r.mark + r.di - 1) \o SubSeq(@, Len(@) - 1, Len(@))]
Await(r, res) == [r EXCEPT !.trace = Completed(@, res)]

\* Promise.race settled by its timer: the operation that lost the race is not
\* cancelled; it runs on, with nobody awaiting it.
Abandon(r, op) == [r EXCEPT !.abandoned = @ \cup {op}]
\* The operation an abandoned lookup or probe is.
LookupOp(fam) == "lookup" \o fam
ProbeOp == "probe"

\* core.setFailed(msg), after which run() returns.
setFailed(r, msg) == [r EXCEPT !.outcome = "failed", !.failMsg = msg, !.pc = "done"]

\* run() returns without core.setFailed having been called.
Finish(r) == [r EXCEPT !.outcome = "success", !.pc = "done"]

(***************************************************************************)
(* Route applicator.                                                       *)
(***************************************************************************)
isIpv6(ip) == Includes(ip, ":")
\* Variant: the IPv4 host mask for every address.
cidrOf_always32(ip) == ip \o <<"/", "3", "2">>

cidrOf(ip) == IF isIpv6(ip) THEN ip \o <<"/", "1", "2", "8">> ELSE ip \o <<"/", "3", "2">>
ipCommand(ip) == IF isIpv6(ip) THEN "ip -6" ELSE "ip"

\* sudo <ipCommand> route add <cidr> dev <iface>
addSingleRoute(ip) ==
    [Ev("route", ip, cidrOf(ip), ipCommand(ip), 0, "pending") EXCEPT !.dev = Iface]

\* The kernel's answers to a route add: a route that is there is rejected
\* ("File exists"), another add succeeds or fails.
RouteAnswers(ip, rt) == IF ip \in rt THEN {"exists"} ELSE {"ok", "fail"}

(***************************************************************************)
(* Reachability prober.                                                    *)
(***************************************************************************)
pingCmd(ip) == IF isIpv6(ip) THEN "ping6" ELSE "ping"
ProbeCmd(ip) == Ev("probe", ip, <<>>, pingCmd(ip), 0, "pending")

slice(l, n) == SubSeq(l, 1, IF Len(l) < n THEN Len(l) ELSE n)

\* Variant: every address of the combined set is probed.
nextProbe_all(r, j) ==
    IF j <= Len(r.allIPs)
    THEN Issue([r EXCEPT !.pi = j], ProbeCmd(r.allIPs[j]), "probe")
    ELSE Finish(r)

nextProbe(r, j) ==
    IF j <= Len(slice(r.allIPs, ProbeSample))
    THEN Issue([r EXCEPT !.pi = j], ProbeCmd(r.allIPs[j]), "probe")
    ELSE Finish(r)

\* Variant: the probe command is awaited without an outer timer.
ProbeOutcomes_noTimer == {"exit0", "nonzero", "spawnerr"}

\* What the prober sees of a probe: the command returned (whatever its exit
\* code: ignoreReturnCode), exec threw, or the 10 s timer rejected first.
ProbeOutcomes == {"exit0", "nonzero", "spawnerr", "timeout"}
probeClass(outcome) == IF outcome \in {"exit0", "nonzero"} THEN "returned" ELSE outcome

\* Variant: a failed probe is not caught.
probeDone_rethrow(r, outcome) ==
    LET r1 == Await(r, probeClass(outcome))
    IN  IF probeClass(outcome) = "returned" THEN nextProbe(r1, r.pi + 1)
        ELSE setFailed(r1, "ping failed")

probeDone(r, outcome) ==
    LET ip == r.allIPs[r.pi]
        r1 == Await(r, probeClass(outcome))
        r2 == IF probeClass(outcome) = "returned" THEN r1
              ELSE IF outcome = "timeout"
                   THEN Log(Abandon(r1, ProbeOp), Warn("pingFail", ip))
              ELSE Log(r1, Warn("pingFail", ip))
    IN  nextProbe(r2, r.pi + 1)

testConnectivity(r) == IF r.allIPs = <<>> THEN Finish(r) ELSE nextProbe(r, 1)

(***************************************************************************)
(* Batches.                                                                *)
(***************************************************************************)
\* Variant: the literal addresses are put before the domain-derived ones.
afterAddRoutes_ipsFirst(r) ==
    LET r1 == [r EXCEPT !.allIPs = r.ips \o r.domainIPs]
    IN  IF Len(r1.allIPs) > 0 THEN testConnectivity(r1) ELSE Finish(r1)

\* addRoutes' return value and the caller's `if (allIPs.length > 0)`.
afterAddRoutes(r) ==
    LET r1 == [r EXCEPT !.allIPs = r.domainIPs \o r.ips]
    IN  IF Len(r1.allIPs) > 0 THEN testConnectivity(r1) ELSE Finish(r1)

\* Variant: an address that occurs earlier in the list is skipped.
nextIpRoute_skipRepeated(r, j) ==
    LET fresh == {k \in j..Len(r.ips) : \A i \in 1..(k - 1) : r.ips[i] # r.ips[k]}
        next == IF fresh = {} THEN Len(r.ips) + 1
                ELSE CHOOSE k \in fresh : \A m \in fresh : k <= m
    IN  IF next <= Len(r.ips)
        THEN Issue([r EXCEPT !.ii = next], addSingleRoute(r.ips[next]), "ipRoute")
        ELSE [Log(r, Info("ipCount", r.routeCountIPs)) EXCEPT !.pc = "ipsDone"]

nextIpRoute(r, j) ==
    IF j <= Len(r.ips)
    THEN Issue([r EXCEPT !.ii = j], addSingleRoute(r.ips[j]), "ipRoute")
    ELSE [Log(r, Info("ipCount", r.routeCountIPs)) EXCEPT !.pc = "ipsDone"]

addRoutesForIPs(r) ==
    IF r.ips = <<>> THEN afterAddRoutes(r)
    ELSE nextIpRoute([Enter(r) EXCEPT !.routeCountIPs = 0], 1)

\* Variant: the loop ends at the first failed address.
ipRouteDone_break(r, res) ==
    LET ip == r.ips[r.ii]
        r1 == Await(r, res)
    IN  IF res = "ok"
        THEN nextIpRoute([r1 EXCEPT !.routeCountIPs = @ + 1, !.applied = Append(@, ip)],
                         r.ii + 1)
        ELSE nextIpRoute(Log(r1, Warn("routeFail", ip)), Len(r.ips) + 1)

\* Variant: a failed route add is not caught.
ipRouteDone_throw(r, res) ==
    LET ip == r.ips[r.ii]
        r1 == Await(r, res)
    IN  IF res = "ok"
        THEN nextIpRoute([r1 EXCEPT !.routeCountIPs = @ + 1, !.applied = Append(@, ip)],
                         r.ii + 1)
        ELSE setFailed(r1, "command failed")

ipRouteDone(r, res) ==
    LET ip == r.ips[r.ii]
        r1 == Await(r, res)
        r2 == IF res = "ok"
              THEN [r1 EXCEPT !.routeCountIPs = @ + 1, !.applied = Append(@, ip)]
              ELSE Log(r1, Warn("routeFail", ip))
    IN  nextIpRoute(r2, r.ii + 1)

\* addRoutesForIPs returns to addRoutes, which returns to its caller.
ipsReturn(r) == afterAddRoutes([Fold(r) EXCEPT !.ii = 0, !.routeCountIPs = 0])

Lookup(fam, domain) == Ev("lookup", domain, <<>>, fam, 0, "pending")

startDomain(r, i) ==
    Issue(Log([r EXCEPT !.di = i, !.resolved = <<>>], Resolving(r.domains[i])),
          Lookup("4", r.domains[i]), "resolve4")

\* Variant: a domain that resolved to nothing ends the loop over the domains.
nextDomainRoute_stopOnEmpty(r, j) ==
    IF j <= Len(r.resolved)
    THEN Issue([r EXCEPT !.ri = j], addSingleRoute(r.resolved[j]), "domRoute")
    ELSE IF r.di < Len(r.domains) /\ r.resolved # <<>> THEN startDomain(r, r.di + 1)
    ELSE [Log(r, Info("domainCount", r.routeCountDomains)) EXCEPT !.pc = "domainsDone"]

nextDomainRoute(r, j) ==
    IF j <= Len(r.resolved)
    THEN Issue([r EXCEPT !.ri = j], addSingleRoute(r.resolved[j]), "domRoute")
    ELSE IF r.di < Len(r.domains) THEN startDomain(r, r.di + 1)
    ELSE [Log(r, Info("domainCount", r.routeCountDomains)) EXCEPT !.pc = "domainsDone"]

\* Variant: a failed route add is not caught.
domRouteDone_throw(r, res) ==
    LET ip == r.resolved[r.ri]
        r1 == Await(r, res)
    IN  IF res = "ok"
        THEN nextDomainRoute([r1 EXCEPT !.routeCountDomains = @ + 1,
                                        !.domainIPs = Append(@, ip),
                                        !.applied = Append(@, ip)], r.ri + 1)
        ELSE setFailed(r1, "command failed")

\* Variant: the route is counted when its add is issued, not when it succeeded.
domRouteDone_countAttempts(r, res) ==
    LET ip == r.resolved[r.ri]
        r1 == [Await(r, res) EXCEPT !.routeCountDomains = @ + 1]
        r2 == IF res = "ok"
              THEN [r1 EXCEPT !.domainIPs = Append(@, ip), !.applied = Append(@, ip)]
              ELSE Log(r1, Warn("routeFail", ip))
    IN  nextDomainRoute(r2, r.ri + 1)

domRouteDone(r, res) ==
    LET ip == r.resolved[r.ri]
        r1 == Await(r, res)
        r2 == IF res = "ok"
              THEN [r1 EXCEPT !.routeCountDomains = @ + 1, !.domainIPs = Append(@, ip),
                              !.applied = Append(@, ip)]
              ELSE Log(r1, Warn("routeFail", ip))
    IN  nextDomainRoute(r2, r.ri + 1)

addRoutesForDomains(r) ==
    IF r.domains = <<>> THEN addRoutesForIPs([r EXCEPT !.domainIPs = <<>>])
    ELSE startDomain([Enter(r) EXCEPT !.routeCountDomains = 0, !.domainIPs = <<>>], 1)

\* addRoutesForDomains returns allIPs to addRoutes, which goes on to the
\* literal addresses.
domainsReturn(r) ==
    addRoutesForIPs([Fold(r) EXCEPT !.di = 0, !.ri = 0, !.resolved = <<>>,
                                    !.routeCountDomains = 0])

addRoutes(r) == addRoutesForDomains(r)

(***************************************************************************)
(* Address resolver.                                                       *)
(***************************************************************************)
\* Variant: the lookup is awaited without a timer.
LookupOutcomes_noTimer == {"ok", "ENOTFOUND", "ENODATA", "ESERVFAIL"}

\* What a family's lookup can do: resolve, reject with a code, or still be
\* pending when the 5 s timer resolves the race with null.
LookupOutcomes == {"ok", "ENOTFOUND", "ENODATA", "ESERVFAIL", "timeout"}
lookupClass(outcome) ==
    IF outcome \in {"ENOTFOUND", "ENODATA"} THEN "norecord"
    ELSE IF outcome = "ESERVFAIL" THEN "error" ELSE outcome

Zone(fam, domain) == IF fam = "4" THEN Zone4(domain) ELSE Zone6(domain)

LookupAnswers(fam, domain) ==
    IF Zone(fam, domain) = <<>> THEN LookupOutcomes \ {"ok"} ELSE LookupOutcomes

\* Variant: a family that does not resolve discards what was resolved before.
resolveFamily_suppress(r, fam, outcome) ==
    LET domain == r.domains[r.di]
        r1 == Await(r, lookupClass(outcome))
    IN  IF outcome = "ok" THEN [r1 EXCEPT !.resolved = @ \o Zone(fam, domain)]
        ELSE IF outcome = "timeout"
             THEN [Log(Abandon(r1, LookupOp(fam)), Warn("timeout" \o fam, domain))
                       EXCEPT !.resolved = <<>>]
        ELSE IF outcome \notin {"ENOTFOUND", "ENODATA"}
             THEN [Log(r1, Warn("failed" \o fam, domain)) EXCEPT !.resolved = <<>>]
        ELSE [r1 EXCEPT !.resolved = <<>>]

\* Variant: every rejected lookup is reported, whatever its code.
resolveFamily_warnAll(r, fam, outcome) ==
    LET domain == r.domains[r.di]
        r1 == Await(r, lookupClass(outcome))
    IN  IF outcome = "ok" THEN [r1 EXCEPT !.resolved = @ \o Zone(fam, domain)]
        ELSE IF outcome = "timeout"
             THEN Log(Abandon(r1, LookupOp(fam)), Warn("timeout" \o fam, domain))
        ELSE Log(r1, Warn("failed" \o fam, domain))

\* One try/catch block of resolveDomainIPs.
resolveFamily(r, fam, outcome) ==
    LET domain == r.domains[r.di]
        r1 == Await(r, lookupClass(outcome))
    IN  IF outcome = "ok" THEN [r1 EXCEPT !.resolved = @ \o Zone(fam, domain)]
        ELSE IF outcome = "timeout"
             THEN Log(Abandon(r1, LookupOp(fam)), Warn("timeout" \o fam, domain))
        ELSE IF outcome \notin {"ENOTFOUND", "ENODATA"}
             THEN Log(r1, Warn("failed" \o fam, domain))
        ELSE r1

resolve4Done(r, outcome) ==
    Issue(resolveFamily(FoldDomain(r), "4", outcome), Lookup("6", r.domains[r.di]), "resolve6")

resolve6Done(r, outcome) == nextDomainRoute(resolveFamily(r, "6", outcome), 1)

(***************************************************************************)
(* Tunnel bring-up and the mode controller.                                *)
(***************************************************************************)
\* An awaited bring-up command: a failure throws up to run()'s catch.
bringUpStep(r, res, next, pc) ==
    IF res = "ok" THEN Issue(Await(r, res), Cmd(next), pc)
    ELSE setFailed(Await(r, res), "command failed")

installDone(r, res) == bringUpStep(r, res, "writeConf", "writeConf")
writeConfDone(r, res) == bringUpStep(r, res, "cp", "cp")
cpDone(r, res) == bringUpStep(r, res, "chmod", "chmod")
chmodDone(r, res) == bringUpStep(r, res, "wgUp", "wgUp")
\* Variant: route application begins as soon as `wg-quick up` has returned.
wgUpDone_noSettle(r, res) ==
    IF res = "ok" THEN addRoutes(Await(r, res))
    ELSE setFailed(Await(r, res), "command failed")

wgUpDone(r, res) == bringUpStep(r, res, "settle", "settle")
settleDone(r) == addRoutes(Await(r, "ok"))

handleSetupMode(r) == Issue([r EXCEPT !.mode = "setup"], Cmd("install"), "install")

\* Variant: the no-input case is logged with core.info.
handleAddRouteMode_info(r) ==
    LET r1 == [r EXCEPT !.mode = "addroute"]
    IN  IF r1.domains = <<>> /\ r1.ips = <<>>
        THEN Finish(Log(r1, Info("noInputs", 0)))
        ELSE addRoutes(r1)

handleAddRouteMode(r) ==
    LET r1 == [r EXCEPT !.mode = "addroute"]
    IN  IF r1.domains = <<>> /\ r1.ips = <<>>
        THEN Finish(Log(r1, Warn("noInputs", <<>>)))
        ELSE addRoutes(r1)

\* Variant: the exit code test is inverted.
checkInterfaceExists_inverted(result) == result # "exit0"

\* result.exitCode === 0
checkInterfaceExists(result) == result = "exit0"

\* `ip link show <iface>`: exit code 0 iff the interface is in the host's
\* table; exec itself throws when the command cannot be launched.
QueryAnswers(up) == (IF up THEN {"exit0"} ELSE {"nonzero"}) \cup {"spawnerr"}

\* What core.getInput("config", {required: true}) finds when it is called.
ConfigInputs == {"given", "missing"}

\* Variant: `config` is not required.
queryDone_noRequired(r, result, config) ==
    LET r1 == Await(r, result)
    IN  IF result = "spawnerr" THEN setFailed(r1, "exec error")
        ELSE IF checkInterfaceExists(result)
             THEN handleAddRouteMode([r1 EXCEPT !.interfaceExists = "yes"])
        ELSE handleSetupMode([r1 EXCEPT !.interfaceExists = "no", !.config = config])

\* Variant: `config` is read, as required, before the mode is chosen.
queryDone_configFirst(r, result, config) ==
    LET r1 == [Await(r, result) EXCEPT !.config = config]
    IN  IF result = "spawnerr" THEN setFailed(r1, "exec error")
        ELSE IF config = "missing"
             THEN setFailed([r1 EXCEPT !.interfaceExists =
                                 IF checkInterfaceExists(result) THEN "yes" ELSE "no"],
                            "config required")
        ELSE IF checkInterfaceExists(result)
             THEN handleAddRouteMode([r1 EXCEPT !.interfaceExists = "yes"])
        ELSE handleSetupMode([r1 EXCEPT !.interfaceExists = "no"])

\* Variant: the query is run without ignoreReturnCode.
queryDone_noIgnoreReturnCode(r, result, config) ==
    LET r1 == Await(r, result)
    IN  IF result # "exit0" THEN setFailed(r1, "exec error")
        ELSE handleAddRouteMode([r1 EXCEPT !.interfaceExists = "yes"])

\* run() from the answer of the interface query on. `config` is read in the
\* branch of an absent interface only; elsewhere it stays unread.
queryDone(r, result, config) ==
    LET r1 == Await(r, result)
    IN  IF result = "spawnerr" THEN setFailed(r1, "exec error")
        ELSE IF checkInterfaceExists(result)
             THEN handleAddRouteMode([r1 EXCEPT !.interfaceExists = "yes"])
        ELSE IF config = "missing"
             THEN setFailed([r1 EXCEPT !.interfaceExists = "no", !.config = config],
                            "config required")
        ELSE handleSetupMode([r1 EXCEPT !.interfaceExists = "no", !.config = config])

\* run() up to its first await.
\* b, rt: the host's history counter and routing table at the start, kept
\* in the invocation's record for reference.
runStart_noPlatformCheck(platform, rawDomains, rawIps, b, rt) ==
    LET r0 == [IdleInv EXCEPT !.platform = platform,
                              !.bringUpsAtStart = b, !.routesAtStart = rt]
    IN  Issue([r0 EXCEPT !.domains = parseInputList(getInput(rawDomains)),
                         !.ips = parseInputList(getInput(rawIps))],
              Cmd("query"), "query")

runStart(platform, rawDomains, rawIps, b, rt) ==
    LET r0 == [IdleInv EXCEPT !.platform = platform,
                              !.bringUpsAtStart = b, !.routesAtStart = rt]
    IN  IF platform # "linux" THEN setFailed(r0, "unsupported platform")
        ELSE Issue([r0 EXCEPT !.domains = parseInputList(getInput(rawDomains)),
                              !.ips = parseInputList(getInput(rawIps))],
                   Cmd("query"), "query")

(***************************************************************************)
(* The state machine.                                                      *)
(***************************************************************************)
Init ==
    /\ ifaceUp \in BOOLEAN
    /\ routes = {}
    /\ bringUps = 0
    /\ inv = IdleInv

\* Variant: the tunnel is taken down when the invocation's process exits.
Exit_teardown ==
    /\ inv.pc = "done"
    /\ inv.abandoned = {}
    /\ inv' = IdleInv
    /\ ifaceUp' = FALSE
    /\ routes' = {}
    /\ UNCHANGED bringUps

\* The process of a finished invocation exits, once nothing it started keeps
\* its event loop alive: nothing of it is kept.
Exit ==
    /\ inv.pc = "done"
    /\ inv.abandoned = {}
    /\ inv' = IdleInv
    /\ UNCHANGED <<ifaceUp, routes, bringUps>>

Start ==
    /\ inv.pc = "idle"
    /\ \E platform \in Platforms, raw \in RawInputs :
          inv' = runStart(platform, raw[1], raw[2], bringUps, routes)
    /\ UNCHANGED <<ifaceUp, routes, bringUps>>

QueryDone ==
    /\ inv.pc = "query"
    /\ \E result \in QueryAnswers(ifaceUp), config \in ConfigInputs :
          inv' = queryDone(inv, result, config)
    /\ UNCHANGED <<ifaceUp, routes, bringUps>>

InstallDone ==
    /\ inv.pc = "install"
    /\ \E res \in {"ok", "fail"} : inv' = installDone(inv, res)
    /\ UNCHANGED <<ifaceUp, routes, bringUps>>

WriteConfDone ==
    /\ inv.pc = "writeConf"
    /\ \E res \in {"ok", "fail"} : inv' = writeConfDone(inv, res)
    /\ UNCHANGED <<ifaceUp, routes, bringUps>>

CpDone ==
    /\ inv.pc = "cp"
    /\ \E res \in {"ok", "fail"} : inv' = cpDone(inv, res)
    /\ UNCHANGED <<ifaceUp, routes, bringUps>>

ChmodDone ==
    /\ inv.pc = "chmod"
    /\ \E res \in {"ok", "fail"} : inv' = chmodDone(inv, res)
    /\ UNCHANGED <<ifaceUp, routes, bringUps>>

\* `wg-quick up`: creates the interface when it succeeds, and refuses an
\* interface that already exists.
WgUpAnswers(up) == IF up THEN {"fail"} ELSE {"ok", "fail"}

WgUpDone ==
    /\ inv.pc = "wgUp"
    /\ \E res \in WgUpAnswers(ifaceUp) :
          /\ inv' = wgUpDone(inv, res)
          /\ ifaceUp' = (ifaceUp \/ res = "ok")
          /\ bringUps' = IF res = "ok" THEN bringUps + 1 ELSE bringUps
    /\ UNCHANGED routes

SettleDone ==
    /\ inv.pc = "settle"
    /\ inv' = settleDone(inv)
    /\ UNCHANGED <<ifaceUp, routes, bringUps>>

Resolve4Done ==
    /\ inv.pc = "resolve4"
    /\ \E outcome \in LookupAnswers("4", inv.domains[inv.di]) :
          inv' = resolve4Done(inv, outcome)
    /\ UNCHANGED <<ifaceUp, routes, bringUps>>

Resolve6Done ==
    /\ inv.pc = "resolve6"
    /\ \E outcome \in LookupAnswers("6", inv.domains[inv.di]) :
          inv' = resolve6Done(inv, outcome)
    /\ UNCHANGED <<ifaceUp, routes, bringUps>>

DomainsReturn ==
    /\ inv.pc = "domainsDone"
    /\ inv' = domainsReturn(inv)
    /\ UNCHANGED <<ifaceUp, routes, bringUps>>

IpsReturn ==
    /\ inv.pc = "ipsDone"
    /\ inv' = ipsReturn(inv)
    /\ UNCHANGED <<ifaceUp, routes, bringUps>>

DomRouteDone ==
    /\ inv.pc = "domRoute"
    /\ LET ip == inv.resolved[inv.ri]
       IN  \E res \in RouteAnswers(ip, routes) :
              /\ inv' = domRouteDone(inv, res)
              /\ routes' = IF res = "ok" THEN routes \cup {ip} ELSE routes
    /\ UNCHANGED <<ifaceUp, bringUps>>

IpRouteDone ==
    /\ inv.pc = "ipRoute"
    /\ LET ip == inv.ips[inv.ii]
       IN  \E res \in RouteAnswers(ip, routes) :
              /\ inv' = ipRouteDone(inv, res)
              /\ routes' = IF res = "ok" THEN routes \cup {ip} ELSE routes
    /\ UNCHANGED <<ifaceUp, bringUps>>

ProbeDone ==
    /\ inv.pc = "probe"
    /\ \E outcome \in ProbeOutcomes : inv' = probeDone(inv, outcome)
    /\ UNCHANGED <<ifaceUp, routes, bringUps>>

\* How an abandoned operation ends: its promise resolves or rejects.
LateResults == {"resolved", "rejected"}

\* Variant: nothing handles the rejection of an abandoned operation.
lateSettle_unhandled(r, op, result) ==
    IF result = "rejected"
    THEN setFailed([r EXCEPT !.abandoned = @ \ {op}], "unhandled rejection")
    ELSE [r EXCEPT !.abandoned = @ \ {op}]

\* Promise.race has subscribed to both of its promises: an operation that
\* settles after the timer has settled the race finds the race settled, and
\* its value or its error goes nowhere.
lateSettle(r, op, result) == [r EXCEPT !.abandoned = @ \ {op}]

LateSettle ==
    /\ \E op \in inv.abandoned, result \in LateResults :
          inv' = lateSettle(inv, op, result)
    /\ UNCHANGED <<ifaceUp, routes, bringUps>>

Next ==
    \/ Start
    \/ QueryDone
    \/ InstallDone
    \/ WriteConfDone
    \/ CpDone
    \/ ChmodDone
    \/ WgUpDone
    \/ SettleDone
    \/ Resolve4Done
    \/ Resolve6Done
    \/ DomRouteDone
    \/ IpRouteDone
    \/ ProbeDone
    \/ DomainsReturn
    \/ IpsReturn
    \/ LateSettle
    \/ Exit

Spec == Init /\ [][Next]_vars

(***************************************************************************)
(* The invocation on a host whose commands end and whose timers fire: the  *)
(* interface query, the bring-up commands and the route adds complete, the *)
(* settle delay elapses, and the timer of a lookup or of a probe fires     *)
(* when the operation has not settled before.  Nothing is assumed of the   *)
(* lookups and the probe commands themselves, awaited or abandoned.        *)
(***************************************************************************)
\* setTimeout(() => resolve(null), timeoutMs) wins the race of a lookup.
LookupTimer ==
    /\ \/ /\ inv.pc = "resolve4"
          /\ "timeout" \in LookupAnswers("4", inv.domains[inv.di])
          /\ inv' = resolve4Done(inv, "timeout")
       \/ /\ inv.pc = "resolve6"
          /\ "timeout" \in LookupAnswers("6", inv.domains[inv.di])
          /\ inv' = resolve6Done(inv, "timeout")
    /\ UNCHANGED <<ifaceUp, routes, bringUps>>

\* setTimeout(() => reject(new Error("Ping timeout")), 10000) wins the race
\* of a probe.
ProbeTimer ==
    /\ inv.pc = "probe"
    /\ "timeout" \in ProbeOutcomes
    /\ inv' = probeDone(inv, "timeout")
    /\ UNCHANGED <<ifaceUp, routes, bringUps>>

Advance ==
    \/ QueryDone
    \/ InstallDone
    \/ WriteConfDone
    \/ CpDone
    \/ ChmodDone
    \/ WgUpDone
    \/ SettleDone
    \/ LookupTimer
    \/ DomRouteDone
    \/ DomainsReturn
    \/ IpRouteDone
    \/ IpsReturn
    \/ ProbeTimer

LiveSpec == Init /\ [][Next]_vars /\ WF_vars(Advance)

(***************************************************************************)
(* parseInputList on its own: an input value is written as a list of       *)
(* tokens joined by commas, or is not set, and is then read and parsed.    *)
(***************************************************************************)
ParseTokens ==
    {DomX, <<" ">> \o DomX \o <<" ">>, <<"\t">> \o DomY, <<"x", " ", "y">>, <<" ">>, <<>>}

ParseInputs ==
    {[pc |-> "input", tokens |-> l, raw |-> JoinComma(l), list |-> <<>>] :
        l \in SeqsUpTo(ParseTokens, MaxTokens)}
    \cup {[pc |-> "input", tokens |-> <<>>, raw |-> Unset, list |-> <<>>]}

ParseInit ==
    /\ ifaceUp = FALSE
    /\ routes = {}
    /\ bringUps = 0
    /\ inv \in ParseInputs

Parse ==
    /\ inv.pc = "input"
    /\ inv' = [inv EXCEPT !.pc = "parsed", !.list = parseInputList(getInput(inv.raw))]
    /\ UNCHANGED <<ifaceUp, routes, bringUps>>

ParseNext == Parse

ParseSpec == ParseInit /\ [][ParseNext]_vars

(***************************************************************************)
(* Properties.                                                             *)
(***************************************************************************)
BringUpKinds == {"install", "writeConf", "cp", "chmod", "wgUp", "settle"}
BringUpCommands == BringUpKinds \ {"settle"}
RouteWorkKinds == {"lookup", "route", "probe"}

Finished == inv.pc = "done"
Logged(ev) == \E i \in 1..Len(inv.trace) : inv.trace[i] = ev
LoggedKind(k, d) == \E i \in 1..Len(inv.trace) : inv.trace[i].k = k /\ inv.trace[i].d = d

\* The events of the batch function that is running or has just finished.
Batch == SubSeq(inv.trace, inv.mark + 1, Len(inv.trace))
\* A domain's events are complete, and all in the log, in two kinds of state:
\* the batch has finished (the last domain's events), or the next domain's
\* first lookup is awaited (the events of the domain before it).
DomainComplete == inv.pc = "domainsDone" \/ (inv.pc = "resolve4" /\ inv.di > 1)
CompleteDomain == IF inv.pc = "domainsDone" THEN inv.domains[inv.di] ELSE inv.domains[inv.di - 1]
DomainEvents ==
    IF inv.pc = "domainsDone"
    THEN SubSeq(inv.trace, inv.mark + inv.di + 1, Len(inv.trace) - 1)
    ELSE SubSeq(inv.trace, inv.mark + inv.di, Len(inv.trace) - 2)
IsRoute(e) == e.k = "route"
IsLookupOk(e) == e.k = "lookup" /\ e.res = "ok"
Subjects(l) == [i \in 1..Len(l) |-> l[i].s]
RECURSIVE Answers(_)
Answers(l) == IF l = <<>> THEN <<>> ELSE Zone(Head(l).d, Head(l).s) \o Answers(Tail(l))

\* C1: when the interface query found the interface absent and no `config`
\* input was given, the invocation has ended in failure with a message and
\* has issued no bring-up command, no lookup, no route add and no probe.
C1_AbsentWithoutConfigFails ==
    (inv.interfaceExists = "no" /\ inv.config = "missing") =>
        /\ Finished
        /\ inv.outcome = "failed"
        /\ inv.failMsg # ""
        /\ inv.issued \cap (BringUpKinds \cup RouteWorkKinds) = {}

C1_Witness ==
    /\ inv.interfaceExists = "no" /\ inv.config = "missing"
    /\ Finished /\ inv.issued = {"query"}

\* C2: when the interface query found the interface present, the invocation
\* issues no bring-up step whatever its inputs, never reads the `config`
\* input, and ends in success, with or without a `config` input.
C2_PresentSkipsBringUp ==
    inv.interfaceExists = "yes" =>
        /\ inv.issued \cap BringUpKinds = {}
        /\ inv.config = "unread"
        /\ inv.mode = "addroute"
        /\ Finished => inv.outcome = "success"

C2_Witness ==
    /\ inv.interfaceExists = "yes" /\ inv.config = "unread"
    /\ Finished /\ inv.outcome = "success"
    /\ "route" \in inv.issued

\* C3: over the invocations on one host, a bring-up succeeds at most once;
\* an invocation started after it finds the interface present and only
\* applies routes; the mode of an invocation is the one its own interface
\* query gives, and the query reports the host's interface table.
C3_BringUpAtMostOnce ==
    /\ bringUps <= 1
    /\ bringUps >= 1 => ifaceUp
    /\ inv.interfaceExists = "yes" => ifaceUp
    /\ (inv.bringUpsAtStart >= 1 /\ inv.interfaceExists # "unknown") =>
           /\ inv.interfaceExists = "yes"
           /\ inv.mode = "addroute"
           /\ inv.issued \cap BringUpKinds = {}
    /\ inv.mode = "addroute" => inv.interfaceExists = "yes"
    /\ inv.mode = "setup" => inv.interfaceExists = "no" /\ inv.bringUpsAtStart = 0

C3_Witness ==
    /\ inv.bringUpsAtStart = 1 /\ inv.mode = "addroute"
    /\ Finished /\ "route" \in inv.issued

\* C4: with the interface present and both normalized lists empty, the
\* invocation has ended in success, has logged a warning, and has issued no
\* lookup, no route add and no probe.
C4_PresentNoInputsWarns ==
    (inv.interfaceExists = "yes" /\ inv.domains = <<>> /\ inv.ips = <<>>) =>
        /\ Finished
        /\ inv.outcome = "success"
        /\ Logged(Warn("noInputs", <<>>))
        /\ inv.issued \cap RouteWorkKinds = {}

C4_Witness ==
    /\ inv.interfaceExists = "yes" /\ inv.domains = <<>> /\ inv.ips = <<>>
    /\ Finished /\ inv.issued = {"query"}

\* C5: on a platform other than linux, run() has ended in failure without
\* issuing any command: no interface query, bring-up command, lookup, route
\* add or probe.
C5_UnsupportedPlatformFails ==
    (inv.pc # "idle" /\ inv.platform # "linux") =>
        /\ Finished
        /\ inv.outcome = "failed"
        /\ inv.issued = {}
        /\ inv.trace = <<>>

C5_Witness == inv.platform = "darwin" /\ Finished /\ inv.outcome = "failed"

\* C6: when the literal batch has finished, the route adds it issued are, in
\* order and once each, the literal addresses, and when a domain's events
\* are complete, its route adds are, in order and once each, the answers of
\* its successful lookups, whatever the results were; every route add that
\* failed is followed by a warning for its address.
FailuresWarned(l) ==
    \A i \in 1..Len(l) :
        (IsRoute(l[i]) /\ l[i].res # "ok") =>
            (i < Len(l) /\ l[i + 1] = Warn("routeFail", l[i].s))

C6_EveryAddressApplied ==
    /\ inv.pc = "ipsDone" =>
           /\ Subjects(SelectSeq(Batch, IsRoute)) = inv.ips
           /\ FailuresWarned(Batch)
    /\ DomainComplete =>
           /\ Subjects(SelectSeq(DomainEvents, IsRoute)) =
                  Answers(SelectSeq(DomainEvents, IsLookupOk))
           /\ FailuresWarned(DomainEvents)

C6_Witness ==
    /\ inv.pc = "ipsDone" /\ Len(inv.ips) = 2
    /\ \E i, j \in 1..Len(Batch) :
          /\ i < j
          /\ IsRoute(Batch[i]) /\ Batch[i].res = "fail"
          /\ IsRoute(Batch[j]) /\ Batch[j].res = "ok"

\* C7: an invocation that reached route application (the interface was
\* present, or bring-up completed) ends in success, whatever the lookups,
\* route adds and probes did.
ReachedRouteApplication ==
    \/ inv.mode = "addroute"
    \/ inv.mode = "setup" /\ "settle" \in inv.issued /\ inv.pc # "settle"

C7_RouteApplicationSucceeds ==
    (Finished /\ ReachedRouteApplication) => inv.outcome = "success"

\* Both batches ran without one route applied and every probe failed.
C7_Witness ==
    /\ Finished /\ inv.outcome = "success" /\ inv.mode = "setup"
    /\ inv.domains # <<>> /\ Logged(Info("domainCount", 0))
    /\ inv.ips # <<>> /\ Logged(Info("ipCount", 0))
    /\ \E i \in 1..Len(inv.trace) : inv.trace[i].k = "probe"
    /\ \A i \in 1..Len(inv.trace) :
          inv.trace[i].k = "probe" => inv.trace[i].res # "returned"

\* C8 as stated: only an unsupported platform, or a missing `config` with the
\* interface absent, makes an invocation end in failure.
C8_OnlyTwoFatalConditions ==
    inv.outcome = "failed" =>
        \/ inv.platform # "linux"
        \/ inv.interfaceExists = "no" /\ inv.config = "missing"

\* C8, amended: an invocation ends in failure only on an unsupported platform,
\* on a missing `config` with the interface absent, when the interface query
\* cannot be launched, or when a bring-up command fails; a query that exits
\* non-zero, a failing lookup, route add or probe never ends it in failure.
C8_FatalConditions ==
    inv.outcome = "failed" =>
        \/ inv.platform # "linux"
        \/ inv.interfaceExists = "no" /\ inv.config = "missing" /\ inv.issued = {"query"}
        \/ Last(inv.trace).k = "query" /\ Last(inv.trace).res = "spawnerr"
        \/ Last(inv.trace).k \in BringUpCommands /\ Last(inv.trace).res = "fail"

C8_Witness ==
    /\ inv.outcome = "failed" /\ inv.config = "given" /\ inv.trace # <<>>
    /\ Last(inv.trace).k = "wgUp" /\ Last(inv.trace).res = "fail"

\* The add of the literal address at position j has been issued and awaited.
LiteralApplied(j) ==
    \/ LoggedKind("info", "ipCount")
    \/ inv.ii > j
    \/ inv.ii = j /\ inv.pc # "ipRoute"
TwiceInIps ==
    \E i, j \in 1..Len(inv.ips) :
        i < j /\ inv.ips[i] = inv.ips[j] /\ inv.ips[i] \in routes /\ LiteralApplied(j)
AppliedBefore ==
    \E i \in 1..Len(inv.ips) : inv.ips[i] \in inv.routesAtStart /\ LiteralApplied(i)

\* C9: an invocation whose literal batch applied an address that already had
\* its route, because the address is twice in `ips` or because an earlier
\* invocation applied it, does not end in failure.
C9_DuplicateNeverFatal ==
    (Finished /\ (TwiceInIps \/ AppliedBefore)) => inv.outcome = "success"

\* The address is twice in `ips`: applied by the first add, rejected at the
\* second.
C9_Witness ==
    /\ Finished /\ inv.outcome = "success"
    /\ TwiceInIps /\ ~AppliedBefore
    /\ Logged(Info("ipCount", 1))

\* C10 as stated: a route add rejected as already existing raises no warning
\* and is counted, so that a batch in which nothing else failed reports as
\* many routes as it attempted.
C10_DuplicateCountedAsSuccess ==
    (inv.pc = "ipsDone" /\ \A i \in 1..Len(Batch) : Batch[i].res # "fail") =>
        /\ inv.routeCountIPs = Len(inv.ips)
        /\ \A i \in 1..Len(Batch) : Batch[i].k # "warn"

\* The result of the last lookup of family fam in the log t.
LookupResult(t, fam) ==
    LET I == {i \in 1..Len(t) : t[i].k = "lookup" /\ t[i].d = fam}
        last == CHOOSE i \in I : \A j \in I : j <= i
    IN  t[last].res
IfOk(res, answer) == IF res = "ok" THEN answer ELSE <<>>

\* C11: the step that ends resolveDomainIPs for a domain leaves as its result
\* the IPv4 answer if the IPv4 lookup succeeded, followed by the IPv6 answer
\* if the IPv6 lookup succeeded, and nothing else, whatever the other
\* family's lookup did (no record, another error, timeout).
C11_ResolvedIsSuccessfulFamilies ==
    [][inv.pc = "resolve6" =>
           inv'.resolved =
               IfOk(LookupResult(inv.trace, "4"), Zone4(inv.domains[inv.di])) \o
               IfOk(LookupResult(inv'.trace, "6"), Zone6(inv.domains[inv.di]))]_vars

\* y has only an IPv4 record: its IPv4 lookup succeeded, its IPv6 lookup found
\* no record, and it resolved to exactly its IPv4 answer.
C11_Witness ==
    /\ inv.pc = "domRoute" /\ inv.domains[inv.di] = DomY
    /\ LookupResult(inv.trace, "4") = "ok"
    /\ LookupResult(inv.trace, "6") = "norecord"
    /\ inv.resolved = <<A4b>>
    /\ Last(inv.trace) = addSingleRoute(A4b)

LookupWarnKinds == {"timeout4", "timeout6", "failed4", "failed6"}
IsLookupWarn(e) == e.k = "warn" /\ e.d \in LookupWarnKinds
HasLookup(l, res) == \E i \in 1..Len(l) : l[i].k = "lookup" /\ l[i].res = res

IsLookup(e) == e.k = "lookup"
IsResolving(e) == e.k = "info" /\ e.d = "resolving"
Families(l) == [i \in 1..Len(l) |-> l[i].d]

\* C13: a domain whose events are complete has had one IPv4 and one IPv6
\* lookup, whatever their outcomes were; when the domain batch has finished,
\* the domains it started to resolve are the domains of the list, once each
\* and in list order; when the literal batch has finished after it, every
\* literal address has had its route add; and an invocation that reached
\* route application ends with both batches run to their end, in success.
C13_EveryDomainResolved ==
    /\ DomainComplete =>
           /\ Subjects(SelectSeq(DomainEvents, IsLookup)) = <<CompleteDomain, CompleteDomain>>
           /\ Families(SelectSeq(DomainEvents, IsLookup)) = <<"4", "6">>
    /\ inv.pc = "domainsDone" =>
           Subjects(SelectSeq(Batch, IsResolving)) = inv.domains
    /\ inv.pc = "ipsDone" =>
           /\ Len(SelectSeq(Batch, IsRoute)) = Len(inv.ips)
           /\ inv.domains # <<>> => LoggedKind("info", "domainCount")
    /\ (Finished /\ ReachedRouteApplication) =>
           /\ inv.outcome = "success"
           /\ inv.domains # <<>> => LoggedKind("info", "domainCount")
           /\ inv.ips # <<>> => LoggedKind("info", "ipCount")

\* The first of two domains had no record in either family and no error came
\* out of the resolver: the second domain's resolution has started.
C13_Witness ==
    /\ inv.pc = "resolve4" /\ inv.di = 2 /\ Len(inv.domains) = 2
    /\ Len(DomainEvents) = 2
    /\ DomainEvents[1].k = "lookup" /\ DomainEvents[1].res = "norecord"
    /\ DomainEvents[2].k = "lookup" /\ DomainEvents[2].res = "norecord"
    /\ Last(inv.trace) = Lookup("4", inv.domains[2])

IsProbe(e) == e.k = "probe"
Probed == Subjects(SelectSeq(inv.trace, IsProbe))
Least(a, b) == IF a < b THEN a ELSE b

\* C14: the probes issued so far are a prefix of the combined address set, in
\* its order, of at most 3 addresses; when an invocation that reached route
\* application has ended, they are exactly its first min(3, n) addresses.
C14_ProbesFirstThree ==
    /\ Len(Probed) <= 3
    /\ Len(Probed) <= Len(inv.allIPs)
    /\ Probed = SubSeq(inv.allIPs, 1, Len(Probed))
    /\ (Finished /\ ReachedRouteApplication) =>
           Len(Probed) = Least(3, Len(inv.allIPs))

\* Four addresses in the combined set, three of them routed: the fourth is
\* not probed.
C14_Witness ==
    /\ Finished /\ Len(inv.allIPs) = 4 /\ Len(inv.applied) >= 3
    /\ Len(Probed) = 3

IsRouteOk(e) == e.k = "route" /\ e.res = "ok"
RECURSIVE IsSubseq(_, _)
IsSubseq(a, b) ==
    IF a = <<>> THEN TRUE
    ELSE IF b = <<>> THEN FALSE
    ELSE IF Head(a) = Head(b) THEN IsSubseq(Tail(a), Tail(b))
    ELSE IsSubseq(a, Tail(b))
\* What the domains of l resolve to when every lookup succeeds.
RECURSIVE FullAnswers(_)
FullAnswers(l) ==
    IF l = <<>> THEN <<>>
    ELSE Zone4(Head(l)) \o Zone6(Head(l)) \o FullAnswers(Tail(l))
CombinedSetBuilt == inv.pc = "probe" \/ (Finished /\ ReachedRouteApplication)

\* C15: the domain-derived addresses are collected domain after domain, each
\* domain adding at the end the addresses whose routes it applied, in the
\* order of its answers, IPv4 answers before IPv6 answers; the combined set handed to the prober ends with the
\* literal addresses in input order, and all that precedes them is
\* domain-derived, in that order.
C15_CombinedSetOrdered ==
    /\ DomainComplete =>
           LET routed == Subjects(SelectSeq(DomainEvents, IsRouteOk))
               n == Len(inv.domainIPs) - Len(routed)
           IN  /\ n >= 0
               /\ SubSeq(inv.domainIPs, n + 1, Len(inv.domainIPs)) = routed
               /\ IsSubseq(routed, Zone4(CompleteDomain) \o Zone6(CompleteDomain))
               /\ IsSubseq(inv.domainIPs, FullAnswers(inv.domains))
    /\ CombinedSetBuilt =>
           LET n == Len(inv.allIPs) - Len(inv.ips)
           IN  /\ n >= 0
               /\ SubSeq(inv.allIPs, n + 1, Len(inv.allIPs)) = inv.ips
               /\ SubSeq(inv.allIPs, 1, n) = inv.domainIPs
               /\ IsSubseq(SubSeq(inv.allIPs, 1, n), FullAnswers(inv.domains))

\* The three answers of x, IPv4 before IPv6, and then a literal address that
\* is one of them.
C15_Witness ==
    /\ Finished /\ inv.domains = <<DomX>> /\ inv.ips = <<A4a>>
    /\ inv.allIPs = <<A4a, A4b, A6a, A4a>>

Applied == {inv.applied[i] : i \in 1..Len(inv.applied)}

\* C16 as stated: every address of the combined set handed to the prober, and
\* so every address probed, had its route applied successfully in this
\* invocation.
C16_ProbedWereApplied ==
    /\ CombinedSetBuilt => \A i \in 1..Len(inv.allIPs) : inv.allIPs[i] \in Applied
    /\ \A i \in 1..Len(Probed) : Probed[i] \in Applied

\* C17: every route add in the log names the interface and has, for an
\* address with a ':', the address with /128 and the IPv6 command variant,
\* and for an address without, the address with /32 and the IPv4 variant.
C17_HostExactPrefix ==
    \A i \in 1..Len(inv.trace) :
        LET e == inv.trace[i]
        IN  IsRoute(e) =>
                /\ e.dev = Iface
                /\ Includes(e.s, ":") =>
                       e.c = e.s \o <<"/", "1", "2", "8">> /\ e.d = "ip -6"
                /\ ~Includes(e.s, ":") =>
                       e.c = e.s \o <<"/", "3", "2">> /\ e.d = "ip"

\* An IPv4 and an IPv6 literal address have both had their route add.
C17_Witness ==
    /\ inv.pc = "ipsDone" /\ inv.ips = <<A4a, A6a>>
    /\ \E i, j \in 1..Len(Batch) :
          /\ IsRoute(Batch[i]) /\ Batch[i].c = <<"1", ".", "5", "/", "3", "2">>
          /\ IsRoute(Batch[j]) /\ Batch[j].c = <<"a", ":", "1", "/", "1", "2", "8">>
          /\ Batch[j].d = "ip -6"

\* The commands an invocation issues: none deletes or replaces a route, none
\* takes the interface down or deletes it.
CommandKinds == {"query"} \cup BringUpKinds \cup RouteWorkKinds

\* C18: no step of any invocation, of one that ends in failure included, and
\* no exit of an invocation removes a route or the interface: the routes only
\* grow, the interface stays once it exists, the routes an invocation found
\* at its start are still there, and every command it has issued is a query,
\* a bring-up step, a lookup, a route add or a probe.
C18_OnlyAdds ==
    [][/\ routes \subseteq routes'
       /\ ifaceUp => ifaceUp'
       /\ inv'.routesAtStart \subseteq routes'
       /\ inv'.issued \subseteq CommandKinds]_vars

\* An invocation has ended in failure on a host with routes: they are all
\* still there, and so is the interface.
C18_Witness ==
    /\ Finished /\ inv.outcome = "failed"
    /\ ifaceUp /\ routes # {} /\ routes = inv.routesAtStart

\* A token without the blanks, tabs and line ends around it.
Strip(t) ==
    LET I == {i \in 1..Len(t) : t[i] \notin {" ", "\t", "\n"}}
    IN  IF I = {} THEN <<>>
        ELSE SubSeq(t, CHOOSE i \in I : \A j \in I : i <= j,
                       CHOOSE i \in I : \A j \in I : j <= i)
RECURSIVE Kept(_)
Kept(l) ==
    IF l = <<>> THEN <<>>
    ELSE IF Strip(Head(l)) = <<>> THEN Kept(Tail(l))
    ELSE <<Strip(Head(l))>> \o Kept(Tail(l))

\* C19: parseInputList gives, for an input written as tokens joined by
\* commas, the tokens stripped of surrounding whitespace, without those that
\* are empty then, in input order and as many times as they occur; for an
\* empty input and for an input that is not set it gives the empty sequence.
C19_ParseKeepsOrderAndDuplicates ==
    inv.pc = "parsed" =>
        /\ inv.list = Kept(inv.tokens)
        /\ inv.raw \in {<<>>, Unset} => inv.list = <<>>

\* A padded token, a blank token and the first token again: the blank one is
\* dropped, the other two are kept, equal after trimming.
C19_Witness ==
    /\ inv.pc = "parsed"
    /\ inv.tokens = <<(<<" ">> \o DomX \o <<" ">>), <<" ">>, DomX>>
    /\ inv.list = <<DomX, DomX>>

NoRepeat(l) == \A i, j \in 1..Len(l) : l[i] = l[j] => i = j
Occurrences(l, x) == Cardinality({i \in 1..Len(l) : l[i] = x})

\* C20 as stated: no token occurs twice in a normalized sequence, and no
\* address is passed to the route applicator twice by a batch.
C20_NormalizedDeduplicated ==
    /\ NoRepeat(inv.domains)
    /\ NoRepeat(inv.ips)
    /\ inv.pc = "ipsDone" => NoRepeat(Subjects(SelectSeq(Batch, IsRoute)))

\* C20, amended: the normalized sequences keep repeated tokens, and a batch
\* passes a literal address to the route applicator once for each of its
\* occurrences in `ips`, and resolves a domain once for each of its
\* occurrences in `domains`.
C20_AppliedOncePerOccurrence ==
    /\ inv.pc = "ipsDone" =>
           \A a \in {A4a, A4b, A6a} :
               Occurrences(Subjects(SelectSeq(Batch, IsRoute)), a) = Occurrences(inv.ips, a)
    /\ inv.pc = "domainsDone" =>
           \A d \in {DomX, DomY} :
               Occurrences(Subjects(SelectSeq(Batch, IsResolving)), d) =
                   Occurrences(inv.domains, d)

\* The same literal address twice: applied by the first add, passed to the
\* applicator again and rejected by the kernel at the second.
C20_Witness ==
    /\ inv.pc = "ipsDone" /\ inv.ips = <<A4a, A4a>>
    /\ Len(Batch) >= 3
    /\ IsRoute(Batch[1]) /\ Batch[1].s = A4a /\ Batch[1].res = "ok"
    /\ IsRoute(Batch[2]) /\ Batch[2].s = A4a /\ Batch[2].res = "exists"

WarnCount(t, w) == Cardinality({i \in 1..Len(t) : t[i] = w})
\* A step in which an abandoned operation settles.
LateStep == inv'.abandoned # inv.abandoned /\ inv'.abandoned \subseteq inv.abandoned

\* C21: a step in which a family's lookup loses the race against its timer
\* adds no address to the domain's result, logs the one timeout warning of
\* that family and domain, and leaves the lookup running unawaited; a step in
\* which an abandoned lookup or probe settles later, with a value or with an
\* error, changes nothing else: not the result or the address lists, not the
\* log (no route add, no warning), not the outcome, not the routes.
C21_LateResultDiscarded ==
    [][/\ \A fam \in {"4", "6"} :
              (inv.pc = "resolve" \o fam /\ LookupResult(inv'.trace, fam) = "timeout") =>
                  /\ inv'.resolved = inv.resolved
                  /\ WarnCount(inv'.trace, Warn("timeout" \o fam, inv.domains[inv.di])) = 1
                  /\ inv'.abandoned = inv.abandoned \cup {LookupOp(fam)}
       /\ LateStep =>
              /\ [inv' EXCEPT !.abandoned = inv.abandoned] = inv
              /\ routes' = routes]_vars

\* The IPv4 lookup of x timed out and has settled since; x resolved to its
\* IPv6 answer alone, whose route add is awaited.
C21_Witness ==
    /\ inv.pc = "domRoute" /\ inv.domains[inv.di] = DomX
    /\ LookupResult(inv.trace, "4") = "timeout"
    /\ LookupResult(inv.trace, "6") = "ok"
    /\ inv.abandoned = {}
    /\ inv.resolved = <<A6a>>
    /\ WarnCount(inv.trace, Warn("timeout4", DomX)) = 1

\* The step has logged the prober's warning for the address it probed.
ProbeWarned ==
    /\ Len(inv'.trace) > Len(inv.trace)
    /\ inv'.trace[Len(inv.trace) + 1] = Warn("pingFail", inv.allIPs[inv.pi])

\* C22 as stated: the step that ends a probe logs a warning for the probed
\* address when the probe command exited non-zero, could not be run, or was
\* still running when the timer fired, and logs none only when it exited
\* with 0.
C22_FailedProbeWarned ==
    [][inv.pc = "probe" =>
           \A outcome \in ProbeOutcomes :
               inv' = probeDone(inv, outcome) => (ProbeWarned <=> outcome # "exit0")]_vars

\* The step ends a probe whose command was still running when the timer fired.
ProbeTimedOut == inv.pc = "probe" /\ inv'.trace[Len(inv.trace)].res = "timeout"

\* What the step that ends a timed-out probe does.
TimedOutProbePassed ==
    ProbeTimedOut =>
        /\ ProbeWarned
        /\ ProbeOp \in inv'.abandoned
        /\ IF inv.pi < Least(ProbeSample, Len(inv.allIPs))
           THEN /\ inv'.pc = "probe"
                /\ inv'.pi = inv.pi + 1
                /\ Last(inv'.trace) = ProbeCmd(inv.allIPs[inv.pi + 1])
           ELSE inv'.pc = "done" /\ inv'.outcome = "success"

\* C23: whenever a probe is awaited its 10 s timer can end the wait, whatever
\* the probe command does; the step in which it does logs a warning for the
\* address, leaves the command running unawaited, and issues the probe of
\* the next sampled address, or ends the invocation in success when the
\* address was the last of the sample.
C23_HangingProbeBounded ==
    /\ [](inv.pc = "probe" => ENABLED ProbeTimer)
    /\ [][TimedOutProbePassed]_vars

\* The invocation has ended with three probes, each of them ended by its
\* timer, and the first of the three commands is still running.
C23_Witness ==
    /\ Finished /\ inv.outcome = "success"
    /\ Len(Probed) = 3
    /\ \A i \in 1..Len(inv.trace) : IsProbe(inv.trace[i]) => inv.trace[i].res = "timeout"
    /\ ProbeOp \in inv.abandoned

SetupOrder == <<"query", "install", "writeConf", "cp", "chmod", "wgUp", "settle">>
IsCommand(e) == e.k \in CommandKinds
Kinds(l) == [i \in 1..Len(l) |-> l[i].k]
Position(d) == CHOOSE i \in 1..Len(inv.trace) : inv.trace[i].k = "info" /\ inv.trace[i].d = d
DomainBatchKinds == {"lookup", "route", "warn", "info"}

\* C24: in setup mode the commands in the log begin with the interface query,
\* the install, the configuration write (file, copy, chmod), the activation
\* and the settle delay, in that order, each issued after the one before it
\* succeeded (the query: answered "absent"), and all that follows them is a
\* lookup, a route add or a probe, issued after the settle delay elapsed;
\* the domain batch has ended before the first literal route add, both
\* batches have ended before the first probe; and after a failed bring-up
\* step the invocation has ended in failure without lookup, route add or
\* probe.
C24_SetupOrder ==
    inv.mode = "setup" =>
        LET cmds == SelectSeq(inv.trace, IsCommand)
            n == Least(Len(SetupOrder), Len(cmds))
        IN  /\ Kinds(SubSeq(cmds, 1, n)) = SubSeq(SetupOrder, 1, n)
            /\ SubSeq(inv.trace, 1, n) = SubSeq(cmds, 1, n)
            /\ n >= 2 => cmds[1].res = "nonzero"
            /\ \A i \in 3..n : cmds[i - 1].res = "ok"
            /\ \A i \in (Len(SetupOrder) + 1)..Len(cmds) :
                   /\ cmds[i].k \in RouteWorkKinds
                   /\ cmds[Len(SetupOrder)].res = "ok"
            /\ inv.issued \cap RouteWorkKinds # {} =>
                   Len(cmds) > Len(SetupOrder) \/ inv.pc \in {"domainsDone", "ipsDone", "done"}
            /\ inv.pc \in {"resolve4", "resolve6", "domRoute", "domainsDone"} =>
                   /\ inv.ii = 0 /\ "probe" \notin inv.issued
                   /\ \A i \in (Len(SetupOrder) + 1)..Len(inv.trace) :
                          inv.trace[i].k \in DomainBatchKinds
            /\ inv.pc \in {"ipRoute", "ipsDone"} =>
                   /\ "probe" \notin inv.issued
                   /\ inv.domains # <<>> =>
                          /\ LoggedKind("info", "domainCount")
                          /\ \A i \in (Position("domainCount") + 1)..Len(inv.trace) :
                                 inv.trace[i].k \in {"route", "warn", "info"}
            /\ "probe" \in inv.issued =>
                   /\ inv.domains # <<>> => LoggedKind("info", "domainCount")
                   /\ inv.ips # <<>> =>
                          /\ LoggedKind("info", "ipCount")
                          /\ \A i \in (Position("ipCount") + 1)..Len(inv.trace) :
                                 inv.trace[i].k \in {"probe", "warn"}
                   /\ \A i \in 1..Len(inv.trace) :
                          inv.trace[i].k \in {"lookup", "route"} => inv.trace[i].res # "pending"
            /\ (\E i \in 1..n : cmds[i].k \in BringUpCommands /\ cmds[i].res = "fail") =>
                   /\ Finished /\ inv.outcome = "failed"
                   /\ inv.issued \cap RouteWorkKinds = {}

\* A bring-up that succeeded, followed by a domain batch, a literal batch and
\* a probe, at the end of the invocation.
C24_Witness ==
    /\ inv.mode = "setup" /\ Finished /\ inv.outcome = "success"
    /\ Kinds(SubSeq(inv.trace, 1, 7)) = SetupOrder
    /\ inv.domains # <<>> /\ inv.ips # <<>>
    /\ inv.issued = CommandKinds
    /\ Kinds(SubSeq(inv.trace, 8, Len(inv.trace))) = <<"info", "info", "probe", "probe">>

\* C25: when the interface query, the bring-up commands and the route adds
\* complete and the timers fire, every invocation that has started comes to
\* its end, in success or in failure, whatever the lookups and the probe
\* commands do, none of them ever completing included.
C25_InvocationTerminates ==
    /\ [](Finished => inv.outcome \in {"success", "failed"})
    /\ (inv.pc # "idle") ~> Finished

\* An invocation with one domain and one literal address has ended although
\* neither of its lookups nor its probe command has completed: all three
\* were ended by their timers and are still running.
C25_Witness ==
    /\ Finished /\ inv.outcome = "success"
    /\ Len(inv.domains) = 1 /\ Len(inv.ips) = 1
    /\ inv.abandoned = {LookupOp("4"), LookupOp("6"), ProbeOp}
    /\ Logged(Info("domainCount", 0))
    /\ Len(Probed) = 1
    /\ \A i \in 1..Len(inv.trace) : IsProbe(inv.trace[i]) => inv.trace[i].res = "timeout"

AwaitingOperation == inv.pc \in {"resolve4", "resolve6", "domRoute", "ipRoute", "probe"}
\* The lookups, route adds and probe commands the invocation has started that
\* have not ended: the one it awaits and those it has abandoned.
Outstanding == (IF AwaitingOperation THEN 1 ELSE 0) + Cardinality(inv.abandoned)

\* C26 as stated: at every moment at most one lookup, route add or probe
\* command started by the invocation is outstanding, and when the invocation
\* has reported its outcome none is still running.
C26_SingleOutstanding ==
    /\ Outstanding <= 1
    /\ Finished => inv.abandoned = {}

IsRouteWarn(e) == e.k = "warn" /\ e.d = "routeFail"
InDomainBatch == inv.pc \in {"resolve4", "resolve6", "domRoute", "domainsDone"}

\* The counts of a finished run of route adds l: those that succeeded and
\* those that were warned of add up to those attempted.
CountsAddUp(l) ==
    Len(SelectSeq(l, IsRouteOk)) + Len(SelectSeq(l, IsRouteWarn)) = Len(SelectSeq(l, IsRoute))

\* The counts of the two batches in a state.
BatchCounts ==
    /\ inv.pc = "ipsDone" =>
           /\ Last(Batch) = Info("ipCount", Len(SelectSeq(Batch, IsRouteOk)))
           /\ inv.routeCountIPs = Len(SelectSeq(Batch, IsRouteOk))
           /\ CountsAddUp(Batch)
           /\ Len(SelectSeq(Batch, IsRoute)) = Len(inv.ips)
    /\ InDomainBatch =>
           /\ inv.routeCountDomains = Len(inv.domainIPs)
           /\ inv.domainIPs = inv.applied
    /\ (inv.pc = "resolve4" /\ inv.di = 1) => inv.domainIPs = <<>>
    /\ DomainComplete =>
           /\ CountsAddUp(DomainEvents)
           /\ Len(SelectSeq(DomainEvents, IsRoute)) =
                  Len(Answers(SelectSeq(DomainEvents, IsLookupOk)))
    /\ inv.pc = "domainsDone" =>
           Last(Batch) = Info("domainCount", Len(inv.domainIPs))

\* What the step that ends a route add of the domain batch does to the count,
\* the returned list and the log.
DomainRouteCounted ==
    (inv.pc = "domRoute" /\ inv'.trace[Len(inv.trace)].res # "pending") =>
        LET e == inv'.trace[Len(inv.trace)]
        IN  IF e.res = "ok"
            THEN /\ inv'.routeCountDomains = inv.routeCountDomains + 1
                 /\ inv'.domainIPs = Append(inv.domainIPs, e.s)
                 /\ WarnCount(inv'.trace, Warn("routeFail", e.s)) =
                        WarnCount(inv.trace, Warn("routeFail", e.s))
            ELSE /\ inv'.routeCountDomains = inv.routeCountDomains
                 /\ inv'.domainIPs = inv.domainIPs
                 /\ inv'.trace[Len(inv.trace) + 1] = Warn("routeFail", e.s)

\* C27: when the literal batch has finished, the count it reports is the
\* number of its route adds that succeeded, its route-failure warnings are as
\* many as the adds that failed, and the two add up to the number of literal
\* addresses; in the domain batch every route add that succeeds adds one to
\* the count and its address to the end of the returned list, every one that
\* fails adds a warning and nothing else, so that for each domain successes
\* and warnings add up to the addresses it resolved to, the count equals the
\* length of the returned list throughout, the list holds the successfully
\* applied addresses in order, and the count reported at the end is its length.
C27_CountsConsistent == []BatchCounts /\ [][DomainRouteCounted]_vars

\* The domain x resolved to three addresses; the add of the second failed:
\* two routes are reported, two addresses returned, one warning logged.
C27_Witness ==
    /\ inv.pc = "domainsDone" /\ inv.domains = <<DomX>>
    /\ Last(inv.trace) = Info("domainCount", 2)
    /\ inv.domainIPs = <<A4a, A6a>>
    /\ SelectSeq(DomainEvents, IsRouteWarn) = <<Warn("routeFail", A4b)>>

\* The answer of the interface query, once it has one.
QueryAnswered(res) ==
    inv.trace # <<>> /\ inv.trace[1].k = "query" /\ inv.trace[1].res = res
BringUpFailed ==
    \E i \in 1..Len(inv.trace) :
        inv.trace[i].k \in BringUpCommands /\ inv.trace[i].res = "fail"

\* C28 as stated: after a query that returned a non-zero status or could not
\* be executed, the interface is taken as absent, `config` has been read as
\* required, and the invocation has not ended in failure because of the
\* query: it fails only for a missing `config` or a failed bring-up step.
C28_NonSuccessIsAbsent ==
    (QueryAnswered("nonzero") \/ QueryAnswered("spawnerr")) =>
        /\ inv.interfaceExists = "no"
        /\ inv.config # "unread"
        /\ inv.outcome = "failed" => (inv.config = "missing" \/ BringUpFailed)

\* C28, amended: after a query that returned a non-zero status the interface
\* is taken as absent, `config` has been read as required, and the
\* invocation is in setup mode or has failed for the missing `config`, never
\* because of the query; after a query that could not be executed the
\* invocation has ended in failure with the error of the query, without
\* deciding on the interface, reading `config` or issuing another command.
C28_NonZeroIsAbsent ==
    /\ QueryAnswered("nonzero") =>
           /\ inv.interfaceExists = "no"
           /\ inv.config # "unread"
           /\ inv.config = "given" => inv.mode = "setup"
           /\ inv.config = "missing" => Finished /\ inv.failMsg = "config required"
           /\ inv.outcome = "failed" => (inv.config = "missing" \/ BringUpFailed)
    /\ QueryAnswered("spawnerr") =>
           /\ Finished /\ inv.outcome = "failed" /\ inv.failMsg = "exec error"
           /\ inv.interfaceExists = "unknown"
           /\ inv.config = "unread"
           /\ inv.mode = "none"
           /\ inv.issued = {"query"}

\* The query returned a non-zero status and `config` was given: the
\* invocation is in setup mode and awaits the install.
C28_Witness ==
    /\ QueryAnswered("nonzero") /\ inv.interfaceExists = "no"
    /\ inv.config = "given" /\ inv.mode = "setup"
    /\ inv.pc = "install" /\ Last(inv.trace) = Cmd("install")

====
